---- MODULE Spec2Model ----
(***************************************************************************)
(* Model of the Q&A assistant's routing core:                              *)
(*   assistant/memory.py  ConversationMemory (bounded ledger)              *)
(*   assistant/router.py  QueryRouter.process_query, _answer_with_llm,     *)
(*                        _extract_tool_call                               *)
(*   tools/weather.py, tools/stock.py  the two registered tools            *)
(***************************************************************************)
EXTENDS Integers, Sequences, FiniteSets, TLC

(***************************************************************************)
(* Bounds of the model.                                                    *)
(***************************************************************************)
MaxTurnsBound == 1      \* max_turns ranges over 0..MaxTurnsBound
MaxAppends == 5         \* appends per run of the memory specification
MaxQueries == 1         \* process_query calls per run of the router
MaxRouteChunks == 2     \* chunks the routing streams deliver over one run
MaxChunks == 2          \* chunks the second streams deliver over one run
MaxText == 6            \* tokens of a text handed to _extract_tool_call

NoneVal == "None"       \* Python's None / an absent dict key

(***************************************************************************)
(* ConversationMemory                                                      *)
(***************************************************************************)
\* a ledger entry; tool_name is NoneVal for entries that have no such key
Msg(role, tool_name, content) ==
    [role |-> role, tool_name |-> tool_name, content |-> content]

\* json.dumps of a tool payload, as stored in a tool entry
JsonDumps(payload) == <<"json", payload>>

\* list slicing msgs[lo:] with 0-based lo >= 0
SliceFrom(msgs, lo) == SubSeq(msgs, lo + 1, Len(msgs))

\* list slicing msgs[:hi] with 0-based hi >= 0
SliceTo(msgs, hi) == SubSeq(msgs, 1, IF hi < Len(msgs) THEN hi ELSE Len(msgs))

\* variant: the cap is taken one entry too large
TruncateOffByOne(msgs, M) ==
    IF Len(msgs) <= M * 2 + 1 THEN msgs
    ELSE LET has_system == Len(msgs) > 0 /\ msgs[1].role = "system"
             start_idx == IF has_system THEN 1 ELSE 0
             num_to_remove == Len(msgs) - (M * 2) - 1 - (IF has_system THEN 1 ELSE 0)
         IN  SliceTo(msgs, start_idx) \o SliceFrom(msgs, start_idx + num_to_remove)

\* variant: the last 2*M entries are kept, whatever the first entry is
TruncateDropsSystem(msgs, M) ==
    IF Len(msgs) <= M * 2 THEN msgs
    ELSE SliceFrom(msgs, Len(msgs) - (M * 2))

\* ConversationMemory._truncate_history
TruncateHistory(msgs, M) ==
    IF Len(msgs) <= M * 2 THEN msgs
    ELSE LET has_system == Len(msgs) > 0 /\ msgs[1].role = "system"
             start_idx == IF has_system THEN 1 ELSE 0
             num_to_remove == Len(msgs) - (M * 2) - (IF has_system THEN 1 ELSE 0)
         IN  SliceTo(msgs, start_idx) \o SliceFrom(msgs, start_idx + num_to_remove)

\* add_user_message / add_assistant_message / add_tool_message:
\* append, then _truncate_history
AddUserMessage(msgs, M, content) ==
    TruncateHistory(Append(msgs, Msg("user", NoneVal, content)), M)

AddAssistantMessage(msgs, M, content) ==
    TruncateHistory(Append(msgs, Msg("assistant", NoneVal, content)), M)

AddToolMessage(msgs, M, tool_name, payload) ==
    TruncateHistory(Append(msgs, Msg("tool", tool_name, JsonDumps(payload))), M)

(***************************************************************************)
(* Text of a model reply: a sequence of tokens.  A token is a run of       *)
(* prose, a code fence, or a complete JSON document.                       *)
(***************************************************************************)
Prose == "prose"
Fence == "<fence>"      \* three backquotes, with or without the json label
D_arr == "[1]"
D_obj == "{'answer': 42}"
D_weather == "{'use_tool': true, 'tool_name': 'get_weather', 'tool_parameters': {'location': 'Paris'}}"
D_stock == "{'use_tool': true, 'tool_name': 'get_stock_price', 'tool_parameters': {'symbol': 'AAPL'}}"
D_stock_nosym == "{'use_tool': true, 'tool_name': 'get_stock_price', 'tool_parameters': {}}"
D_badparams == "{'use_tool': true, 'tool_name': 'get_weather', 'tool_parameters': [1]}"
D_unicorn == "{'use_tool': true, 'tool_name': 'get_unicorn_price'}"
D_noname == "{'use_tool': true}"
D_listname == "{'use_tool': true, 'tool_name': ['get_weather']}"
D_false == "{'use_tool': false, 'tool_name': 'get_weather', 'tool_parameters': {'location': 'Paris'}}"
D_strfalse == "{'use_tool': 'false', 'tool_name': 'get_weather', 'tool_parameters': {'location': 'Paris'}}"
D_null == "{'use_tool': null, 'tool_name': 'get_weather'}"

\* the JSON documents that are objects carrying the key use_tool
ToolCallDocs == {D_weather, D_stock, D_stock_nosym, D_badparams, D_unicorn,
                 D_noname, D_listname, D_false, D_strfalse, D_null}
\* the JSON documents that are objects
DictDocs == ToolCallDocs \cup {D_obj}
\* every token json.loads accepts
JsonDocs == DictDocs \cup {D_arr}
Tokens == JsonDocs \cup {Prose, Fence}

JSONDecodeError == "JSONDecodeError"

\* json.loads of a candidate: the document when the candidate is exactly
\* one JSON document (surrounding whitespace aside), else JSONDecodeError
JsonLoads(cand) ==
    IF Len(cand) = 1 /\ cand[1] \in JsonDocs THEN cand[1] ELSE JSONDecodeError

\* data.get(key) on a parsed tool-call document (NoneVal when absent)
DictGet(d, key) ==
    CASE key = "use_tool" ->
           (CASE d \in {D_weather, D_stock, D_stock_nosym, D_badparams,
                        D_unicorn, D_noname, D_listname} -> "true"
              [] d = D_false -> "false"
              [] d = D_strfalse -> "'false'"
              [] d = D_null -> "null"
              [] OTHER -> NoneVal)
      [] key = "tool_name" ->
           (CASE d \in {D_weather, D_badparams, D_false, D_strfalse, D_null} -> "get_weather"
              [] d \in {D_stock, D_stock_nosym} -> "get_stock_price"
              [] d = D_unicorn -> "get_unicorn_price"
              [] d = D_listname -> "['get_weather']"
              [] OTHER -> NoneVal)
      [] key = "tool_parameters" ->
           (CASE d \in {D_weather, D_false, D_strfalse} -> "{'location': 'Paris'}"
              [] d = D_stock -> "{'symbol': 'AAPL'}"
              [] d = D_stock_nosym -> "{}"
              [] d = D_badparams -> "[1]"
              [] OTHER -> NoneVal)
      [] OTHER -> NoneVal

\* "use_tool" in data
HasUseTool(d) == d \in ToolCallDocs

\* Python truthiness of a JSON value
Truthy(v) == v \in {"true", "'false'"}

\* a value that cannot be hashed (a list or a dict)
Unhashable(v) == v = "['get_weather']"

Min(S) == CHOOSE x \in S : \A y \in S : x <= y

\* re.findall(<fence>(?:json)?\s*([\s\S]*?)\s*<fence>, text): the contents between
\* successive pairs of fences, left to right, non-overlapping
RECURSIVE FindAll(_)
FindAll(text) ==
    LET fences == {i \in 1..Len(text) : text[i] = Fence}
    IN  IF Cardinality(fences) < 2 THEN <<>>
        ELSE LET i == Min(fences)
                 j == Min(fences \ {i})
             IN  <<SubSeq(text, i + 1, j - 1)>> \o FindAll(SubSeq(text, j + 1, Len(text)))

\* variant: the loop returns after its first candidate
HeadOnlyToolCall(json_matches) ==
    IF json_matches = <<>> THEN NoneVal
    ELSE LET data == JsonLoads(Head(json_matches))
         IN  IF data # JSONDecodeError /\ data \in DictDocs /\ HasUseTool(data)
             THEN data
             ELSE NoneVal

\* the for loop of _extract_tool_call over json_matches
RECURSIVE FirstToolCall(_)
FirstToolCall(json_matches) ==
    IF json_matches = <<>> THEN NoneVal
    ELSE LET data == JsonLoads(Head(json_matches))
         IN  IF data # JSONDecodeError /\ data \in DictDocs /\ HasUseTool(data)
             THEN data
             ELSE FirstToolCall(Tail(json_matches))

\* QueryRouter._extract_tool_call
ExtractToolCall(text) ==
    LET found == FindAll(text)
        json_matches == IF found = <<>> THEN <<text>> ELSE found
    IN  FirstToolCall(json_matches)

(***************************************************************************)
(* The registered tools                                                    *)
(***************************************************************************)
\* the keys of QueryRouter.tool_map as built by main()
ToolMap == {"get_weather", "get_stock_price"}

\* what the upstream HTTP exchange of a tool can do
NetOutcomes == {"ok", "status", "client_error", "bad_payload", "other"}

\* what execute did: returned a payload or raised, and whether it had sent
\* its HTTP request by then
Returned(payload) == [raised |-> FALSE, payload |-> payload, requested |-> FALSE]
Raised(exc) == [raised |-> TRUE, payload |-> exc, requested |-> FALSE]
AfterRequest(r) == [r EXCEPT !.requested = TRUE]

\* the parameter mappings a tool can be executed with
Kwargs == {"{'location': 'Paris'}", "{'symbol': 'AAPL'}", "{'symbol': 7}",
           "{'location': ''}", "{}"}

\* kwargs.get(key)
KwGet(kwargs, key) ==
    CASE kwargs = "{'location': 'Paris'}" /\ key = "location" -> "Paris"
      [] kwargs = "{'location': ''}" /\ key = "location" -> ""
      [] kwargs = "{'symbol': 'AAPL'}" /\ key = "symbol" -> "AAPL"
      [] kwargs = "{'symbol': 7}" /\ key = "symbol" -> "7 (int)"
      [] OTHER -> NoneVal

\* `not value` for the values kwargs.get can return
Falsy(v) == v \in {NoneVal, ""}

\* WeatherTool.execute
WeatherExecute(kwargs, has_key, net) ==
    IF Falsy(KwGet(kwargs, "location")) THEN Raised("ValueError: Location is required")
    ELSE IF ~has_key THEN Returned("error: Weather API key is missing")
    ELSE AfterRequest(
           CASE net = "ok" -> Returned("weather report")
             [] net = "status" -> Returned("error: Weather API error")
             [] net = "client_error" -> Returned("error: Network error connecting to weather API")
             [] net = "bad_payload" -> Returned("error: Unexpected data format from weather API")
             [] OTHER -> Returned("error: Error fetching weather data"))

\* StockTool.execute; symbol.strip() runs before the try block
StockExecute(kwargs, has_key, net) ==
    IF Falsy(KwGet(kwargs, "symbol")) THEN Raised("ValueError: Stock symbol is required")
    ELSE IF ~has_key THEN Returned("error: Alpha Vantage API key is missing")
    ELSE IF KwGet(kwargs, "symbol") = "7 (int)"
         THEN Raised("AttributeError: 'int' object has no attribute 'strip'")
    ELSE AfterRequest(
           CASE net = "ok" -> Returned("stock quote")
             [] net = "status" -> Returned("error: Stock API error")
             [] net = "client_error" -> Returned("error: Network error connecting to stock API")
             [] net = "bad_payload" -> Returned("error: No data found for symbol")
             [] OTHER -> Returned("error: Error fetching stock data"))

\* a payload of the shape {error, details}
IsErrorPayload(p) == p \notin {"weather report", "stock quote"}

\* tool.execute(**tool_parameters): unpacking a non-mapping raises TypeError
CallTool(tool_name, tool_parameters, has_key, net) ==
    IF tool_parameters \notin Kwargs
    THEN Raised("TypeError: argument after ** must be a mapping")
    ELSE IF tool_name = "get_weather" THEN WeatherExecute(tool_parameters, has_key, net)
    ELSE StockExecute(tool_parameters, has_key, net)

\* variant: tool.execute is called outside any try/except
ExecuteUncaught(tool_name, tool_parameters, has_key, net) ==
    CallTool(tool_name, tool_parameters, has_key, net)

\* the try/except around tool.execute in process_query: an exception
\* becomes the tool_response {error, details}
ExecuteContained(tool_name, tool_parameters, has_key, net) ==
    LET r == CallTool(tool_name, tool_parameters, has_key, net)
    IN  IF r.raised THEN Returned("error: Error executing tool") ELSE r

(***************************************************************************)
(* State                                                                   *)
(***************************************************************************)
VARIABLES
    max_turns,        \* ConversationMemory.max_turns
    messages,         \* ConversationMemory.messages
    api_key,          \* tool name -> whether the tool was built with an api_key
    pc,               \* position of the running process_query
    suspended,        \* the generator is paused at a yield
    query,            \* argument of the running process_query
    routing_messages, \* the messages list built for the routing call
    full_response,    \* text accumulated from the routing stream
    tool_call,        \* result of _extract_tool_call
    second_response,  \* formatted_response, or full_response of _answer_with_llm
    routed,           \* chunks the routing streams have delivered so far
    delivered,        \* chunks the second streams have delivered so far
    out,              \* fragments yielded to the caller by this process_query
    calls,            \* model calls issued by this process_query, in order
    executed,         \* tools executed by this process_query, in order
    tool_response,    \* what the last tool.execute did
    exec_kwargs,      \* the parameters of a tool executed on its own
    upstream,         \* what the upstream service answers to that tool
    refs,             \* identity of each dict in messages, where snapshots are taken
    snapshot,         \* the list a caller got from get_messages: identities of its dicts
    qlog,             \* entries appended by this process_query, in order
    outcome,          \* how this process_query went
    nq,               \* process_query calls started
    prev_outcome,     \* how the process_query before this one went
    appended          \* every entry appended since construction or clear()

vars == <<max_turns, messages, api_key, tool_response, exec_kwargs, upstream, refs, snapshot, pc, suspended, query, routing_messages, full_response,
          tool_call, second_response, routed, delivered, out, calls, executed, qlog,
          outcome, nq, prev_outcome, appended>>

routerVars == <<api_key, tool_response, exec_kwargs, upstream, refs, snapshot, pc, suspended, query, routing_messages, full_response, tool_call,
                second_response, routed, delivered, out, calls, executed, qlog, outcome, nq, prev_outcome>>

\* no tool has been executed
NoResponse == Returned(NoneVal)

\* the per-query locals before a query runs
IdleRouter ==
    /\ tool_response = NoResponse
    /\ exec_kwargs = NoneVal
    /\ upstream = NoneVal
    /\ suspended = FALSE
    /\ query = NoneVal
    /\ routing_messages = <<>>
    /\ full_response = <<>>
    /\ tool_call = NoneVal
    /\ second_response = <<>>
    /\ routed = 0
    /\ delivered = 0
    /\ out = <<>>
    /\ calls = <<>>
    /\ executed = <<>>
    /\ qlog = <<>>
    /\ outcome = NoneVal
    /\ nq = 0
    /\ prev_outcome = NoneVal

(***************************************************************************)
(* Specification of ConversationMemory alone: any mix of appends and       *)
(* clear(), on a ledger that starts empty or with a leading system entry.  *)
(***************************************************************************)
SystemMsg == Msg("system", NoneVal, <<"system prompt">>)
MemContents == {<<"a">>, <<"b">>}
MemPayloads == {"weather report", "error: Error executing tool"}

\* what no operation on the ledger or on the caller's list touches
memFrame == <<max_turns, api_key, tool_response, exec_kwargs, upstream, suspended, query,
               routing_messages,
               full_response, tool_call, second_response, routed, delivered, out,
               calls, executed, qlog, outcome, nq, prev_outcome>>

InitMem ==
    /\ max_turns \in 0..MaxTurnsBound
    /\ messages \in {<<>>, <<SystemMsg>>}
    /\ appended = <<>>
    /\ api_key = [t \in ToolMap |-> TRUE]
    /\ refs = <<>>
    /\ snapshot = <<>>
    /\ pc = "memory"
    /\ IdleRouter

MemAddUser(c) ==
    /\ Len(appended) < MaxAppends
    /\ messages' = AddUserMessage(messages, max_turns, c)
    /\ appended' = Append(appended, Msg("user", NoneVal, c))
    /\ UNCHANGED <<max_turns, routerVars>>

MemAddAssistant(c) ==
    /\ Len(appended) < MaxAppends
    /\ messages' = AddAssistantMessage(messages, max_turns, c)
    /\ appended' = Append(appended, Msg("assistant", NoneVal, c))
    /\ UNCHANGED <<max_turns, routerVars>>

MemAddTool(t, p) ==
    /\ Len(appended) < MaxAppends
    /\ messages' = AddToolMessage(messages, max_turns, t, p)
    /\ appended' = Append(appended, Msg("tool", t, JsonDumps(p)))
    /\ UNCHANGED <<max_turns, routerVars>>

\* variant: clear() keeps a leading system entry
MemClearKeepsSystem ==
    /\ messages' = IF Len(messages) > 0 /\ messages[1].role = "system"
                    THEN <<messages[1]>> ELSE <<>>
    /\ appended' = <<>>
    /\ pc' = "cleared"
    /\ UNCHANGED <<refs, snapshot, memFrame>>

\* ConversationMemory.clear; pc records that the ledger has been cleared
MemClear ==
    /\ messages' = <<>>
    /\ appended' = <<>>
    /\ pc' = "cleared"
    /\ UNCHANGED <<refs, snapshot, memFrame>>

NextMem ==
    \/ \E c \in MemContents : MemAddUser(c)
    \/ \E c \in MemContents : MemAddAssistant(c)
    \/ \E t \in ToolMap, p \in MemPayloads : MemAddTool(t, p)
    \/ MemClear

SpecMem == InitMem /\ [][NextMem]_vars

(***************************************************************************)
(* Specification of get_messages: the ledger's operations, a caller that   *)
(* takes the list get_messages returns, and what the caller can do to that *)
(* list and to the dicts in it.  Dicts have identities: refs[i] is the     *)
(* identity of messages[i].                                                *)
(***************************************************************************)
MaxSnapshot == 2        \* entries the caller's list can hold
MaxSnapAppends == 3     \* appends between two clear() calls

Range(s) == {s[i] : i \in 1..Len(s)}

\* the identity of a newly created dict: one no live dict has
FreshRef ==
    Min({k \in 1..(Len(refs) + Len(snapshot) + 1) : k \notin Range(refs) \cup Range(snapshot)})

\* the dicts the ledger holds after appending a new one: _truncate_history
\* builds its new list from slices of the old one, so the dicts are the same
RefsAfterAppend(role) ==
    LET tagged == [i \in 1..Len(messages) |-> [role |-> messages[i].role, ref |-> refs[i]]]
        kept == TruncateHistory(Append(tagged, [role |-> role, ref |-> FreshRef]), max_turns)
    IN  [i \in 1..Len(kept) |-> kept[i].ref]

InitSnap ==
    /\ max_turns \in 0..MaxTurnsBound
    /\ messages \in {<<>>, <<SystemMsg>>}
    /\ refs = [i \in 1..Len(messages) |-> i]
    /\ snapshot = <<>>
    /\ appended = <<>>
    /\ api_key = [t \in ToolMap |-> TRUE]
    /\ pc = "memory"
    /\ IdleRouter

SnapAddUser(c) ==
    /\ Len(appended) < MaxSnapAppends
    /\ messages' = AddUserMessage(messages, max_turns, c)
    /\ refs' = RefsAfterAppend("user")
    /\ appended' = Append(appended, Msg("user", NoneVal, c))
    /\ pc' = "memory"
    /\ UNCHANGED <<snapshot, memFrame>>

SnapAddAssistant(c) ==
    /\ Len(appended) < MaxSnapAppends
    /\ messages' = AddAssistantMessage(messages, max_turns, c)
    /\ refs' = RefsAfterAppend("assistant")
    /\ appended' = Append(appended, Msg("assistant", NoneVal, c))
    /\ pc' = "memory"
    /\ UNCHANGED <<snapshot, memFrame>>

\* ConversationMemory.clear: self.messages = []
SnapClear ==
    /\ messages' = <<>>
    /\ refs' = <<>>
    /\ appended' = <<>>
    /\ pc' = "memory"
    /\ UNCHANGED <<snapshot, memFrame>>

\* ConversationMemory.get_messages: self.messages.copy(), a new list of the
\* same dicts
GetMessages ==
    /\ snapshot' = refs
    /\ pc' = "memory"
    /\ UNCHANGED <<messages, refs, appended, memFrame>>

\* the caller appends a dict of its own to the returned list
CallerAppends ==
    /\ Len(snapshot) < MaxSnapshot
    /\ snapshot' = Append(snapshot, FreshRef)
    /\ pc' = "caller"
    /\ UNCHANGED <<messages, refs, appended, memFrame>>

\* the caller removes the i-th entry of the returned list
CallerRemoves(i) ==
    /\ i \in 1..Len(snapshot)
    /\ snapshot' = SubSeq(snapshot, 1, i - 1) \o SubSeq(snapshot, i + 1, Len(snapshot))
    /\ pc' = "caller"
    /\ UNCHANGED <<messages, refs, appended, memFrame>>

\* the caller reverses the returned list
CallerReorders ==
    /\ Len(snapshot) >= 2
    /\ snapshot' = [i \in 1..Len(snapshot) |-> snapshot[Len(snapshot) + 1 - i]]
    /\ pc' = "caller"
    /\ UNCHANGED <<messages, refs, appended, memFrame>>

\* the caller assigns the content field of the i-th entry of the returned
\* list: the dict changes, wherever it is referenced from
CallerSetsField(i) ==
    /\ i \in 1..Len(snapshot)
    /\ messages' = [j \in 1..Len(messages) |->
                       IF refs[j] = snapshot[i]
                       THEN [messages[j] EXCEPT !.content = <<"set by the caller">>]
                       ELSE messages[j]]
    /\ pc' = "caller"
    /\ UNCHANGED <<snapshot, refs, appended, memFrame>>

NextSnap ==
    \/ SnapAddUser(<<"a">>)
    \/ SnapAddAssistant(<<"b">>)
    \/ SnapClear
    \/ GetMessages
    \/ CallerAppends
    \/ \E i \in 1..MaxSnapshot : CallerRemoves(i)
    \/ CallerReorders
    \/ \E i \in 1..MaxSnapshot : CallerSetsField(i)

SpecSnap == InitSnap /\ [][NextSnap]_vars

(***************************************************************************)
(* Specification of _extract_tool_call alone: applied once to each text    *)
(* of at most MaxText tokens.                                              *)
(***************************************************************************)
ExtractTokens == {Prose, Fence, D_arr, D_obj, D_weather, D_false}

RECURSIVE SeqsUpTo(_, _)
SeqsUpTo(S, n) ==
    IF n = 0 THEN {<<>>}
    ELSE LET shorter == SeqsUpTo(S, n - 1)
         IN  shorter \cup {Append(s, x) : s \in {t \in shorter : Len(t) = n - 1}, x \in S}

InitExtract ==
    /\ max_turns = 0
    /\ messages = <<>>
    /\ appended = <<>>
    /\ api_key = [t \in ToolMap |-> TRUE]
    /\ pc = "extract"
    /\ tool_response = NoResponse
    /\ exec_kwargs = NoneVal
    /\ upstream = NoneVal
    /\ refs = <<>>
    /\ snapshot = <<>>
    /\ suspended = FALSE
    /\ query = NoneVal
    /\ routing_messages = <<>>
    /\ full_response \in SeqsUpTo(ExtractTokens, MaxText)
    /\ tool_call = NoneVal
    /\ second_response = <<>>
    /\ routed = 0
    /\ delivered = 0
    /\ out = <<>>
    /\ calls = <<>>
    /\ executed = <<>>
    /\ qlog = <<>>
    /\ outcome = NoneVal
    /\ nq = 0
    /\ prev_outcome = NoneVal

ApplyExtract ==
    /\ pc = "extract"
    /\ tool_call' = ExtractToolCall(full_response)
    /\ pc' = "extracted"
    /\ UNCHANGED <<max_turns, messages, appended, api_key, tool_response, exec_kwargs, upstream, refs, snapshot, suspended, query, routing_messages,
                   full_response, second_response, routed, delivered, out, calls,
                   executed, qlog, outcome, nq, prev_outcome>>

NextExtract == ApplyExtract

SpecExtract == InitExtract /\ [][NextExtract]_vars

(***************************************************************************)
(* Specification of the tools alone: one execute of either tool, built     *)
(* with or without an api_key, on each parameter mapping and each answer   *)
(* of the upstream service.                                                *)
(***************************************************************************)
InitTool ==
    /\ max_turns = 0
    /\ messages = <<>>
    /\ appended = <<>>
    /\ api_key \in [ToolMap -> BOOLEAN]
    /\ exec_kwargs \in Kwargs
    /\ upstream \in NetOutcomes
    /\ refs = <<>>
    /\ snapshot = <<>>
    /\ tool_response = NoResponse
    /\ pc = "tool"
    /\ suspended = FALSE
    /\ query = NoneVal
    /\ routing_messages = <<>>
    /\ full_response = <<>>
    /\ tool_call = NoneVal
    /\ second_response = <<>>
    /\ routed = 0
    /\ delivered = 0
    /\ out = <<>>
    /\ calls = <<>>
    /\ executed = <<>>
    /\ qlog = <<>>
    /\ outcome = NoneVal
    /\ nq = 0
    /\ prev_outcome = NoneVal

\* await tool.execute(**exec_kwargs) with no try/except around it
Execute(t) ==
    /\ pc = "tool"
    /\ tool_response' = CallTool(t, exec_kwargs, api_key[t], upstream)
    /\ executed' = <<t>>
    /\ pc' = "executed"
    /\ UNCHANGED <<max_turns, messages, appended, api_key, exec_kwargs, upstream, refs, snapshot,
                   suspended, query, routing_messages, full_response, tool_call, second_response,
                   routed, delivered, out, calls, qlog, outcome, nq, prev_outcome>>

NextTool == \E t \in ToolMap : Execute(t)

SpecTool == InitTool /\ [][NextTool]_vars

(***************************************************************************)
(* Specification of the router: sequential process_query calls (and        *)
(* clear() between them) against one ConversationMemory.                   *)
(***************************************************************************)
Queries == {<<"query">>}
\* delta.content of a chunk of the second stream: prose, or text that would
\* itself read as a tool call
Chunks == {"x", D_weather}
\* delta.content of a chunk of the routing stream: one or more tokens
RouteChunks == {<<Prose>>, <<D_weather>>, <<Prose, Fence, D_stock, Fence>>,
                <<D_badparams>>, <<D_unicorn>>, <<D_noname>>, <<D_listname>>,
                <<D_false>>, <<D_strfalse>>}

\* the fragments process_query yields besides model text
Indicator(tool_name) == <<"I'll check that for you using", tool_name>>
Notice(tool_name) == <<"I attempted to use a tool called", tool_name, "but it's not available">>
ErrorMsg == <<"I encountered an error">>
FallbackErrorMsg == <<"I encountered an error providing a general knowledge answer">>

\* main() builds the tools from API_KEYS: here WEATHER_API_KEY is set and
\* ALPHA_VANTAGE_API_KEY is not, so both kinds of tool are registered
EnvironmentKeys == [t \in ToolMap |-> t = "get_weather"]

Init ==
    /\ max_turns \in 0..MaxTurnsBound
    /\ messages = <<>>
    /\ appended = <<>>
    /\ api_key = EnvironmentKeys
    /\ refs = <<>>
    /\ snapshot = <<>>
    /\ pc = "idle"
    /\ IdleRouter

\* no process_query is running
Between == pc \in {"idle", "done", "abandoned"}

\* variant: any extracted intent counts as a tool call
IsToolCallIgnoresFlag(tc) == tc # NoneVal

\* tool_call and tool_call.get("use_tool", False)
IsToolCall(tc) == tc # NoneVal /\ Truthy(DictGet(tc, "use_tool"))

\* tool_call.get("tool_parameters", {})
ToolParameters(tc) ==
    IF DictGet(tc, "tool_parameters") = NoneVal THEN "{}" ELSE DictGet(tc, "tool_parameters")

\* how a process_query that ran into an except clause ended, by what raised
ErrRouting == "ERROR: the routing call raised"
ErrLookup == "ERROR: the tool lookup raised"
ErrTool == "ERROR: tool.execute raised"
ErrFormatting == "ERROR: the result-formatting call raised"
ErrFallback == "ERROR: the general-knowledge call raised"
IsError(o) == o \in {ErrRouting, ErrLookup, ErrTool, ErrFormatting, ErrFallback}

\* variant: after the except clause the router takes no further query
OuterExceptSticks(raised_by) ==
    /\ out' = Append(out, ErrorMsg)
    /\ outcome' = raised_by
    /\ pc' = "failed"
    /\ suspended' = FALSE

\* variant: the except clause re-raises to the caller
OuterExceptReraises(raised_by) ==
    /\ out' = out
    /\ outcome' = "RAISED to the caller"
    /\ pc' = "done"
    /\ suspended' = FALSE

\* the except clause of process_query: yield error_msg and finish
OuterExcept(raised_by) ==
    /\ out' = Append(out, ErrorMsg)
    /\ outcome' = raised_by
    /\ pc' = "done"
    /\ suspended' = FALSE

\* the except clause of _answer_with_llm: yield error_msg and finish
InnerExcept ==
    /\ out' = Append(out, FallbackErrorMsg)
    /\ outcome' = ErrFallback
    /\ pc' = "done"
    /\ suspended' = FALSE

\* the entry of the messages list of a model call
ChatMsg(role, content) == [role |-> role, content |-> content]

\* get_system_prompt(tools)
SystemPrompt == ChatMsg("system", <<"routing system prompt">>)

IsUserOrAssistant(m) == m.role \in {"user", "assistant"}

\* variant: the whole history is copied, the latest user message included
RoutingMessagesKeepsLatest(history, q) ==
    LET kept == SelectSeq(history, IsUserOrAssistant)
    IN  <<SystemPrompt>>
           \o [i \in 1..Len(kept) |-> ChatMsg(kept[i].role, kept[i].content)]
           \o <<ChatMsg("user", q)>>

\* variant: tool entries are sent too, as assistant messages
RoutingMessagesSendsTool(history, q) ==
    LET kept == SliceTo(history, Len(history) - 1)
    IN  <<SystemPrompt>>
           \o [i \in 1..Len(kept) |->
                 ChatMsg(IF kept[i].role = "tool" THEN "assistant" ELSE kept[i].role,
                         kept[i].content)]
           \o <<ChatMsg("user", q)>>

\* the messages list of the routing call: the system prompt, the user and
\* assistant entries of history[:-1], the query
RoutingMessages(history, q) ==
    LET kept == SelectSeq(SliceTo(history, Len(history) - 1), IsUserOrAssistant)
    IN  <<SystemPrompt>>
           \o [i \in 1..Len(kept) |-> ChatMsg(kept[i].role, kept[i].content)]
           \o <<ChatMsg("user", q)>>

\* variant: a query is accepted while the previous one is still running
StartQueryAnyTime(q) ==
    /\ pc # "route_open"
    /\ routing_messages' = RoutingMessages(AddUserMessage(messages, max_turns, q), q)
    /\ nq' = nq + 1
    /\ prev_outcome' = outcome
    /\ query' = q
    /\ messages' = AddUserMessage(messages, max_turns, q)
    /\ appended' = Append(appended, Msg("user", NoneVal, q))
    /\ qlog' = <<Msg("user", NoneVal, q)>>
    /\ pc' = "route_open"
    /\ suspended' = FALSE
    /\ full_response' = <<>>
    /\ tool_call' = NoneVal
    /\ second_response' = <<>>
    /\ UNCHANGED <<routed, delivered>>
    /\ out' = <<>>
    /\ calls' = <<>>
    /\ executed' = <<>>
    /\ outcome' = NoneVal
    /\ tool_response' = NoResponse
    /\ UNCHANGED <<max_turns, api_key, exec_kwargs, upstream, refs, snapshot>>

\* process_query up to the routing call: add_user_message(query), then the
\* messages list built from get_messages()
StartQuery(q) ==
    /\ Between
    /\ routing_messages' = RoutingMessages(AddUserMessage(messages, max_turns, q), q)
    /\ nq' = nq + 1
    /\ prev_outcome' = outcome
    /\ query' = q
    /\ messages' = AddUserMessage(messages, max_turns, q)
    /\ appended' = Append(appended, Msg("user", NoneVal, q))
    /\ qlog' = <<Msg("user", NoneVal, q)>>
    /\ pc' = "route_open"
    /\ suspended' = FALSE
    /\ full_response' = <<>>
    /\ tool_call' = NoneVal
    /\ second_response' = <<>>
    /\ UNCHANGED <<routed, delivered>>
    /\ out' = <<>>
    /\ calls' = <<>>
    /\ executed' = <<>>
    /\ outcome' = NoneVal
    /\ tool_response' = NoResponse
    /\ UNCHANGED <<max_turns, api_key, exec_kwargs, upstream, refs, snapshot>>

\* the routing call client.chat.stream_async returns a stream
RouteOpen ==
    /\ pc = "route_open"
    /\ calls' = Append(calls, "routing")
    /\ pc' = "route_stream"
    /\ UNCHANGED <<routed, delivered>>
    /\ UNCHANGED <<max_turns, messages, appended, api_key, tool_response, exec_kwargs, upstream, refs, snapshot, suspended, query, routing_messages,
                   full_response, tool_call, second_response, out, executed,
                   qlog, outcome, nq, prev_outcome>>

\* the routing call raises
RouteOpenFails ==
    /\ pc = "route_open"
    /\ calls' = Append(calls, "routing")
    /\ OuterExcept(ErrRouting)
    /\ UNCHANGED <<max_turns, messages, appended, api_key, tool_response, exec_kwargs, upstream, refs, snapshot, query, routing_messages, full_response,
                   tool_call, second_response, routed, delivered, executed, qlog, nq, prev_outcome>>

\* one chunk of the routing stream: full_response += content; a chunk whose
\* content is None is skipped (c = <<>> adds nothing either way)
RouteChunk(c) ==
    /\ pc = "route_stream"
    /\ routed < MaxRouteChunks
    /\ routed' = routed + 1
    /\ full_response' = full_response \o c
    /\ UNCHANGED <<delivered, max_turns, messages, appended, api_key, tool_response, exec_kwargs, upstream, refs, snapshot, pc, suspended, query, routing_messages,
                   tool_call, second_response, out, calls, executed, qlog,
                   outcome, nq, prev_outcome>>

\* variant: the text read so far is yielded before the error string
RouteFailsYieldsPartial ==
    /\ pc = "route_stream"
    /\ out' = out \o <<full_response, ErrorMsg>>
    /\ outcome' = ErrRouting
    /\ pc' = "done"
    /\ suspended' = FALSE
    /\ UNCHANGED <<max_turns, messages, appended, api_key, tool_response, exec_kwargs, upstream, refs, snapshot, query, routing_messages, full_response,
                   tool_call, second_response, routed, delivered, calls, executed, qlog, nq, prev_outcome>>

\* variant: a failed routing stream is followed by a new routing call
RouteFailsRetries ==
    /\ pc = "route_stream"
    /\ pc' = "route_open"
    /\ full_response' = <<>>
    /\ UNCHANGED <<max_turns, messages, appended, api_key, tool_response, exec_kwargs,
                   upstream, refs, snapshot, suspended, query, routing_messages, tool_call,
                   second_response, routed, delivered, out, calls, executed, qlog,
                   outcome, nq, prev_outcome>>

\* the routing stream raises while being read
RouteFails ==
    /\ pc = "route_stream"
    /\ OuterExcept(ErrRouting)
    /\ UNCHANGED <<max_turns, messages, appended, api_key, tool_response, exec_kwargs, upstream, refs, snapshot, query, routing_messages, full_response,
                   tool_call, second_response, routed, delivered, calls, executed, qlog, nq, prev_outcome>>

\* variant: the answer is stored before it is yielded
RouteEndDirectStoresFirst ==
    /\ pc = "route_stream"
    /\ tool_call' = ExtractToolCall(full_response)
    /\ ~IsToolCall(tool_call')
    /\ messages' = AddAssistantMessage(messages, max_turns, full_response)
    /\ appended' = Append(appended, Msg("assistant", NoneVal, full_response))
    /\ qlog' = Append(qlog, Msg("assistant", NoneVal, full_response))
    /\ out' = Append(out, full_response)
    /\ suspended' = TRUE
    /\ pc' = "direct_yielded"
    /\ UNCHANGED <<max_turns, api_key, tool_response, exec_kwargs, upstream, refs, snapshot, query, routing_messages, full_response,
                   second_response, routed, delivered, calls, executed, outcome, nq, prev_outcome>>

\* variant: an empty answer is stored without being yielded
RouteEndDirectSkipsEmpty ==
    /\ pc = "route_stream"
    /\ tool_call' = ExtractToolCall(full_response)
    /\ ~IsToolCall(tool_call')
    /\ out' = IF full_response = <<>> THEN out ELSE Append(out, full_response)
    /\ suspended' = (full_response # <<>>)
    /\ pc' = "direct_yielded"
    /\ UNCHANGED <<max_turns, messages, appended, api_key, tool_response, exec_kwargs,
                   upstream, refs, snapshot, query, routing_messages, full_response,
                   second_response, routed, delivered, calls, executed, qlog, outcome,
                   nq, prev_outcome>>

\* the routing stream ends, no tool call: yield full_response
RouteEndDirect ==
    /\ pc = "route_stream"
    /\ tool_call' = ExtractToolCall(full_response)
    /\ ~IsToolCall(tool_call')
    /\ out' = Append(out, full_response)
    /\ suspended' = TRUE
    /\ pc' = "direct_yielded"
    /\ UNCHANGED <<max_turns, messages, appended, api_key, tool_response, exec_kwargs, upstream, refs, snapshot, query, routing_messages, full_response,
                   second_response, routed, delivered, calls, executed, qlog, outcome, nq, prev_outcome>>

\* the routing stream ends, tool call whose name cannot be looked up:
\* `tool_name in self.tool_map` raises TypeError
RouteEndLookupRaises ==
    /\ pc = "route_stream"
    /\ tool_call' = ExtractToolCall(full_response)
    /\ IsToolCall(tool_call')
    /\ Unhashable(DictGet(tool_call', "tool_name"))
    /\ OuterExcept(ErrLookup)
    /\ UNCHANGED <<max_turns, messages, appended, api_key, tool_response, exec_kwargs, upstream, refs, snapshot, query, routing_messages, full_response,
                   second_response, routed, delivered, calls, executed, qlog, nq, prev_outcome>>

\* variant: the routing text is yielded in place of the indicator
RouteEndToolYieldsRaw ==
    /\ pc = "route_stream"
    /\ tool_call' = ExtractToolCall(full_response)
    /\ IsToolCall(tool_call')
    /\ ~Unhashable(DictGet(tool_call', "tool_name"))
    /\ DictGet(tool_call', "tool_name") \in ToolMap
    /\ out' = Append(out, full_response)
    /\ suspended' = TRUE
    /\ pc' = "tool_exec"
    /\ UNCHANGED <<max_turns, messages, appended, api_key, tool_response, exec_kwargs,
                   upstream, refs, snapshot, query, routing_messages, full_response,
                   second_response, routed, delivered, calls, executed, qlog, outcome,
                   nq, prev_outcome>>

\* the routing stream ends, tool call of a registered tool: yield the indicator
RouteEndTool ==
    /\ pc = "route_stream"
    /\ tool_call' = ExtractToolCall(full_response)
    /\ IsToolCall(tool_call')
    /\ ~Unhashable(DictGet(tool_call', "tool_name"))
    /\ DictGet(tool_call', "tool_name") \in ToolMap
    /\ out' = Append(out, Indicator(DictGet(tool_call', "tool_name")))
    /\ suspended' = TRUE
    /\ pc' = "tool_exec"
    /\ UNCHANGED <<max_turns, messages, appended, api_key, tool_response, exec_kwargs, upstream, refs, snapshot, query, routing_messages, full_response,
                   second_response, routed, delivered, calls, executed, qlog, outcome, nq, prev_outcome>>

\* variant: the unregistered tool is recorded in the ledger as a tool entry
RouteEndUnknownStoresTool ==
    /\ pc = "route_stream"
    /\ tool_call' = ExtractToolCall(full_response)
    /\ IsToolCall(tool_call')
    /\ ~Unhashable(DictGet(tool_call', "tool_name"))
    /\ DictGet(tool_call', "tool_name") \notin ToolMap
    /\ messages' = AddToolMessage(messages, max_turns, DictGet(tool_call', "tool_name"), "error: not available")
    /\ appended' = Append(appended, Msg("tool", DictGet(tool_call', "tool_name"), JsonDumps("error: not available")))
    /\ qlog' = Append(qlog, Msg("tool", DictGet(tool_call', "tool_name"), JsonDumps("error: not available")))
    /\ out' = Append(out, Notice(DictGet(tool_call', "tool_name")))
    /\ suspended' = TRUE
    /\ pc' = "fallback_open"
    /\ UNCHANGED <<max_turns, api_key, tool_response, exec_kwargs, upstream, refs, snapshot,
                   query, routing_messages, full_response, second_response, routed,
                   delivered, calls, executed, outcome, nq, prev_outcome>>

\* the routing stream ends, tool call of an unregistered tool: yield the notice
RouteEndUnknown ==
    /\ pc = "route_stream"
    /\ tool_call' = ExtractToolCall(full_response)
    /\ IsToolCall(tool_call')
    /\ ~Unhashable(DictGet(tool_call', "tool_name"))
    /\ DictGet(tool_call', "tool_name") \notin ToolMap
    /\ out' = Append(out, Notice(DictGet(tool_call', "tool_name")))
    /\ suspended' = TRUE
    /\ pc' = "fallback_open"
    /\ UNCHANGED <<max_turns, messages, appended, api_key, tool_response, exec_kwargs, upstream, refs, snapshot, query, routing_messages, full_response,
                   second_response, routed, delivered, calls, executed, qlog, outcome, nq, prev_outcome>>

\* resumed after yield full_response: add_assistant_message(full_response)
DirectAppend ==
    /\ pc = "direct_yielded"
    /\ messages' = AddAssistantMessage(messages, max_turns, full_response)
    /\ appended' = Append(appended, Msg("assistant", NoneVal, full_response))
    /\ qlog' = Append(qlog, Msg("assistant", NoneVal, full_response))
    /\ outcome' = "DONE"
    /\ pc' = "done"
    /\ suspended' = FALSE
    /\ UNCHANGED <<max_turns, api_key, tool_response, exec_kwargs, upstream, refs, snapshot, query, routing_messages, full_response, tool_call,
                   second_response, routed, delivered, out, calls, executed, nq, prev_outcome>>

\* resumed after the indicator: tool.execute inside its try/except, then
\* add_tool_message(tool_name, tool_response); an exception the inner try
\* let through would reach the except clause of process_query
ToolExec(net) ==
    /\ pc = "tool_exec"
    /\ LET tool_name == DictGet(tool_call, "tool_name")
           r == ExecuteContained(tool_name, ToolParameters(tool_call), api_key[tool_name], net)
       IN  /\ executed' = Append(executed, tool_name)
           /\ tool_response' = r
           /\ IF r.raised
              THEN /\ OuterExcept(ErrTool)
                   /\ UNCHANGED <<messages, appended, qlog>>
              ELSE /\ messages' = AddToolMessage(messages, max_turns, tool_name, r.payload)
                   /\ appended' = Append(appended, Msg("tool", tool_name, JsonDumps(r.payload)))
                   /\ qlog' = Append(qlog, Msg("tool", tool_name, JsonDumps(r.payload)))
                   /\ pc' = "format_open"
                   /\ suspended' = FALSE
                   /\ UNCHANGED <<out, outcome>>
    /\ UNCHANGED <<max_turns, api_key, exec_kwargs, upstream, refs, snapshot, query, routing_messages, full_response, tool_call,
                   second_response, routed, delivered, calls, nq, prev_outcome>>

\* the result-formatting call returns a stream
FormatOpen ==
    /\ pc = "format_open"
    /\ calls' = Append(calls, "formatting")
    /\ pc' = "format_stream"
    /\ UNCHANGED <<routed, delivered>>
    /\ UNCHANGED <<max_turns, messages, appended, api_key, tool_response, exec_kwargs, upstream, refs, snapshot, suspended, query, routing_messages,
                   full_response, tool_call, second_response, out, executed,
                   qlog, outcome, nq, prev_outcome>>

\* the result-formatting call raises
FormatOpenFails ==
    /\ pc = "format_open"
    /\ calls' = Append(calls, "formatting")
    /\ OuterExcept(ErrFormatting)
    /\ UNCHANGED <<max_turns, messages, appended, api_key, tool_response, exec_kwargs, upstream, refs, snapshot, query, routing_messages, full_response,
                   tool_call, second_response, routed, delivered, executed, qlog, nq, prev_outcome>>

\* one chunk of the formatting stream: accumulate and yield it, unless it
\* has no content
FormatChunk(c) ==
    /\ pc = "format_stream"
    /\ delivered < MaxChunks
    /\ delivered' = delivered + 1
    /\ UNCHANGED routed
    /\ IF c = NoneVal
       THEN /\ suspended' = FALSE
            /\ UNCHANGED <<second_response, out>>
       ELSE /\ second_response' = Append(second_response, c)
            /\ out' = Append(out, <<c>>)
            /\ suspended' = TRUE
    /\ UNCHANGED <<max_turns, messages, appended, api_key, tool_response, exec_kwargs, upstream, refs, snapshot, pc, query, routing_messages,
                   full_response, tool_call, calls, executed, qlog, outcome, nq, prev_outcome>>

\* variant: the text streamed so far is stored as the assistant turn
FormatFailsCommitsPartial ==
    /\ pc = "format_stream"
    /\ OuterExcept(ErrFormatting)
    /\ messages' = AddAssistantMessage(messages, max_turns, second_response)
    /\ appended' = Append(appended, Msg("assistant", NoneVal, second_response))
    /\ qlog' = Append(qlog, Msg("assistant", NoneVal, second_response))
    /\ UNCHANGED <<max_turns, api_key, tool_response, exec_kwargs, upstream, refs, snapshot, query, routing_messages, full_response, tool_call,
                   second_response, routed, delivered, calls, executed, nq, prev_outcome>>

\* variant: a failed formatting stream falls back to _answer_with_llm
FormatFailsFallsBack ==
    /\ pc = "format_stream"
    /\ pc' = "fallback_open"
    /\ suspended' = FALSE
    /\ UNCHANGED <<max_turns, messages, appended, api_key, tool_response, exec_kwargs, upstream, refs, snapshot, query, routing_messages, full_response,
                   tool_call, second_response, routed, delivered, out, calls,
                   executed, qlog, outcome, nq, prev_outcome>>

\* the formatting stream raises while being read
FormatFails ==
    /\ pc = "format_stream"
    /\ OuterExcept(ErrFormatting)
    /\ UNCHANGED <<max_turns, messages, appended, api_key, tool_response, exec_kwargs, upstream, refs, snapshot, query, routing_messages, full_response,
                   tool_call, second_response, routed, delivered, calls, executed, qlog, nq, prev_outcome>>

\* variant: the routing text is stored instead of the formatted text
FormatEndAppendsRouting ==
    /\ pc = "format_stream"
    /\ messages' = AddAssistantMessage(messages, max_turns, full_response)
    /\ appended' = Append(appended, Msg("assistant", NoneVal, full_response))
    /\ qlog' = Append(qlog, Msg("assistant", NoneVal, full_response))
    /\ outcome' = "DONE"
    /\ pc' = "done"
    /\ suspended' = FALSE
    /\ UNCHANGED <<max_turns, api_key, tool_response, exec_kwargs, upstream, refs, snapshot, query, routing_messages, full_response, tool_call,
                   second_response, routed, delivered, out, calls, executed, nq, prev_outcome>>

\* variant: everything yielded, the indicator included, is stored
FormatEndStoresIndicator ==
    /\ pc = "format_stream"
    /\ messages' = AddAssistantMessage(messages, max_turns, out[1] \o second_response)
    /\ appended' = Append(appended, Msg("assistant", NoneVal, out[1] \o second_response))
    /\ qlog' = Append(qlog, Msg("assistant", NoneVal, out[1] \o second_response))
    /\ outcome' = "DONE"
    /\ pc' = "done"
    /\ suspended' = FALSE
    /\ UNCHANGED <<max_turns, api_key, tool_response, exec_kwargs, upstream, refs, snapshot,
                   query, routing_messages, full_response, tool_call, second_response,
                   routed, delivered, out, calls, executed, nq, prev_outcome>>

\* variant: the formatted answer is not stored
FormatEndSkipsAssistant ==
    /\ pc = "format_stream"
    /\ outcome' = "DONE"
    /\ pc' = "done"
    /\ suspended' = FALSE
    /\ UNCHANGED <<max_turns, messages, appended, qlog, api_key, tool_response, exec_kwargs,
                   upstream, refs, snapshot, query, routing_messages, full_response,
                   tool_call, second_response, routed, delivered, out, calls, executed, nq, prev_outcome>>

\* the formatting stream ends: add_assistant_message(formatted_response)
FormatEnd ==
    /\ pc = "format_stream"
    /\ messages' = AddAssistantMessage(messages, max_turns, second_response)
    /\ appended' = Append(appended, Msg("assistant", NoneVal, second_response))
    /\ qlog' = Append(qlog, Msg("assistant", NoneVal, second_response))
    /\ outcome' = "DONE"
    /\ pc' = "done"
    /\ suspended' = FALSE
    /\ UNCHANGED <<max_turns, api_key, tool_response, exec_kwargs, upstream, refs, snapshot, query, routing_messages, full_response, tool_call,
                   second_response, routed, delivered, out, calls, executed, nq, prev_outcome>>

\* _answer_with_llm: the general-knowledge call returns a stream
FallbackOpen ==
    /\ pc = "fallback_open"
    /\ calls' = Append(calls, "fallback")
    /\ pc' = "fallback_stream"
    /\ UNCHANGED <<routed, delivered>>
    /\ suspended' = FALSE
    /\ UNCHANGED <<max_turns, messages, appended, api_key, tool_response, exec_kwargs, upstream, refs, snapshot, query, routing_messages,
                   full_response, tool_call, second_response, out, executed,
                   qlog, outcome, nq, prev_outcome>>

\* _answer_with_llm: the general-knowledge call raises
FallbackOpenFails ==
    /\ pc = "fallback_open"
    /\ calls' = Append(calls, "fallback")
    /\ InnerExcept
    /\ UNCHANGED <<max_turns, messages, appended, api_key, tool_response, exec_kwargs, upstream, refs, snapshot, query, routing_messages, full_response,
                   tool_call, second_response, routed, delivered, executed, qlog, nq, prev_outcome>>

\* _answer_with_llm: one chunk of the stream, accumulated and yielded
FallbackChunk(c) ==
    /\ pc = "fallback_stream"
    /\ delivered < MaxChunks
    /\ delivered' = delivered + 1
    /\ UNCHANGED routed
    /\ IF c = NoneVal
       THEN /\ suspended' = FALSE
            /\ UNCHANGED <<second_response, out>>
       ELSE /\ second_response' = Append(second_response, c)
            /\ out' = Append(out, <<c>>)
            /\ suspended' = TRUE
    /\ UNCHANGED <<max_turns, messages, appended, api_key, tool_response, exec_kwargs, upstream, refs, snapshot, pc, query, routing_messages,
                   full_response, tool_call, calls, executed, qlog, outcome, nq, prev_outcome>>

\* variant: a failed general-knowledge stream is followed by a new call
FallbackFailsReopens ==
    /\ pc = "fallback_stream"
    /\ pc' = "fallback_open"
    /\ second_response' = <<>>
    /\ UNCHANGED <<max_turns, messages, appended, api_key, tool_response, exec_kwargs,
                   upstream, refs, snapshot, suspended, query, routing_messages, tool_call,
                   full_response, routed, delivered, out, calls, executed, qlog,
                   outcome, nq, prev_outcome>>

\* _answer_with_llm: the stream raises while being read
FallbackFails ==
    /\ pc = "fallback_stream"
    /\ InnerExcept
    /\ UNCHANGED <<max_turns, messages, appended, api_key, tool_response, exec_kwargs, upstream, refs, snapshot, query, routing_messages, full_response,
                   tool_call, second_response, routed, delivered, calls, executed, qlog, nq, prev_outcome>>

\* _answer_with_llm: the stream ends: add_assistant_message(full_response)
FallbackEnd ==
    /\ pc = "fallback_stream"
    /\ messages' = AddAssistantMessage(messages, max_turns, second_response)
    /\ appended' = Append(appended, Msg("assistant", NoneVal, second_response))
    /\ qlog' = Append(qlog, Msg("assistant", NoneVal, second_response))
    /\ outcome' = "DONE"
    /\ pc' = "done"
    /\ suspended' = FALSE
    /\ UNCHANGED <<max_turns, api_key, tool_response, exec_kwargs, upstream, refs, snapshot, query, routing_messages, full_response, tool_call,
                   second_response, routed, delivered, out, calls, executed, nq, prev_outcome>>

\* the caller stops iterating while the generator is paused at a yield
Abandon ==
    /\ suspended
    /\ pc' = "abandoned"
    /\ suspended' = FALSE
    /\ outcome' = "ABANDONED"
    /\ UNCHANGED <<max_turns, messages, appended, api_key, tool_response, exec_kwargs, upstream, refs, snapshot, query, routing_messages, full_response,
                   tool_call, second_response, routed, delivered, out, calls, executed,
                   qlog, nq, prev_outcome>>

\* the clear/reset command of main(): memory.clear()
Clear ==
    /\ Between
    /\ messages' = <<>>
    /\ appended' = <<>>
    /\ UNCHANGED <<max_turns, routerVars>>

Next ==
    \/ \E q \in Queries : nq < MaxQueries /\ StartQuery(q)
    \/ RouteOpen
    \/ RouteOpenFails
    \/ \E c \in RouteChunks \cup {<<>>} : RouteChunk(c)
    \/ RouteFails
    \/ RouteEndDirect
    \/ RouteEndLookupRaises
    \/ RouteEndTool
    \/ RouteEndUnknown
    \/ DirectAppend
    \/ \E net \in NetOutcomes : ToolExec(net)
    \/ FormatOpen
    \/ FormatOpenFails
    \/ \E c \in Chunks \cup {NoneVal} : FormatChunk(c)
    \/ FormatFails
    \/ FormatEnd
    \/ FallbackOpen
    \/ FallbackOpenFails
    \/ \E c \in Chunks \cup {NoneVal} : FallbackChunk(c)
    \/ FallbackFails
    \/ FallbackEnd
    \/ Abandon
    \/ Clear

Spec == Init /\ [][Next]_vars

(***************************************************************************)
(* Specification of a session: several process_query calls one after the   *)
(* other against the same QueryRouter and ConversationMemory, with fewer   *)
(* different replies than Spec draws.                                      *)
(***************************************************************************)
MaxSessionQueries == 2  \* process_query calls per session

SessionRouteChunks == {<<Prose>>, <<D_weather>>, <<D_unicorn>>, <<D_listname>>}
SessionChunks == {"x"}
SessionNet == {"ok", "other"}

NextSession ==
    \/ \E q \in Queries : nq < MaxSessionQueries /\ StartQuery(q)
    \/ RouteOpen
    \/ RouteOpenFails
    \/ \E c \in SessionRouteChunks : RouteChunk(c)
    \/ RouteFails
    \/ RouteEndDirect
    \/ RouteEndLookupRaises
    \/ RouteEndTool
    \/ RouteEndUnknown
    \/ DirectAppend
    \/ \E net \in SessionNet : ToolExec(net)
    \/ FormatOpen
    \/ FormatOpenFails
    \/ \E c \in SessionChunks : FormatChunk(c)
    \/ FormatFails
    \/ FormatEnd
    \/ FallbackOpen
    \/ FallbackOpenFails
    \/ \E c \in SessionChunks : FallbackChunk(c)
    \/ FallbackFails
    \/ FallbackEnd
    \/ Abandon
    \/ Clear

SpecSession == Init /\ [][NextSession]_vars

(***************************************************************************)
(* Properties                                                              *)
(***************************************************************************)
Min2(a, b) == IF a < b THEN a ELSE b

\* the last k entries of s
LastN(s, k) == SubSeq(s, Len(s) - k + 1, Len(s))

\* the fragments of a response joined in order
RECURSIVE Concat(_)
Concat(frags) == IF frags = <<>> THEN <<>> ELSE Head(frags) \o Concat(Tail(frags))

\* each chunk of a streamed text as the fragment it was yielded in
AsFragments(text) == [i \in 1..Len(text) |-> <<text[i]>>]

HasSystem == Len(messages) > 0 /\ messages[1].role = "system"

UserEntry == Msg("user", NoneVal, query)

\* C1 (retention exactness): with no leading system entry, after every
\* append the ledger holds min(appends so far, 2*max_turns) entries, and they
\* are exactly the most recently appended ones in their original order,
\* whatever the roles appended.
C1_RetentionExact ==
    ~HasSystem =>
        /\ Len(messages) = Min2(Len(appended), 2 * max_turns)
        /\ messages = LastN(appended, Min2(Len(appended), 2 * max_turns))

\* C1 witness: a ledger of cap 2 after four appends of mixed roles, the last a
\* tool entry, two of them evicted.
C1_Witness ==
    /\ ~HasSystem
    /\ max_turns = 1
    /\ Len(appended) = 4
    /\ appended[1].role = "assistant"
    /\ appended[2].role = "user"
    /\ appended[4].role = "tool"
    /\ Len(messages) = 2

\* C2 (pinned system entry): when the ledger starts with a system entry, an
\* append leaves that entry at index 0, leaves at most 2*max_turns + 1
\* entries, and removes only a prefix of the non-system entries (the oldest
\* ones, contiguously).
C2_PinnedSystem ==
    [][ (HasSystem /\ Len(appended') = Len(appended) + 1) =>
           /\ Len(messages') > 0
           /\ messages'[1] = messages[1]
           /\ Len(messages') <= 2 * max_turns + 1
           /\ \E k \in 0..Len(messages) :
                 Tail(messages') =
                    SliceFrom(Tail(messages) \o <<appended'[Len(appended')]>>, k) ]_vars

\* C2 witness: a pinned ledger of cap 2 that has evicted an entry and holds
\* the system entry plus two others.
C2_Witness ==
    /\ HasSystem
    /\ max_turns = 1
    /\ Len(appended) = 3
    /\ Len(messages) = 3
    /\ messages[2] = appended[2]

\* tool.execute ran in this query and did not produce a success payload
ToolFailed ==
    /\ executed # <<>>
    /\ ~(Len(qlog) >= 2 /\ qlog[2].role = "tool" /\ ~IsErrorPayload(qlog[2].content[2]))

\* C3 (capability failure containment): once a registered tool has been
\* executed and has raised or returned an error payload, that payload is in
\* the ledger as the tool turn of the query, the query does not end in an
\* error because of the tool, the result-formatting call is issued, and when
\* that call's stream completes the query is DONE with the indicator and the
\* stream's chunks yielded and the assistant turn appended.
C3_ToolFailureContained ==
    ToolFailed =>
        /\ Len(qlog) >= 2
        /\ qlog[2].role = "tool"
        /\ qlog[2].tool_name = executed[1]
        /\ IsErrorPayload(qlog[2].content[2])
        /\ outcome \notin {ErrTool, ErrLookup, ErrRouting, ErrFallback}
        /\ pc = "done" => calls = <<"routing", "formatting">>
        /\ (pc = "done" /\ outcome # ErrFormatting) =>
              /\ outcome = "DONE"
              /\ out = <<Indicator(executed[1])>> \o AsFragments(second_response)
              /\ qlog = <<UserEntry, qlog[2], Msg("assistant", NoneVal, second_response)>>

\* C3 witness: a tool that raised (its payload is the one the router builds),
\* and the query still ended DONE with a streamed answer.
C3_Witness ==
    /\ pc = "done"
    /\ outcome = "DONE"
    /\ executed = <<"get_weather">>
    /\ Len(qlog) = 3
    /\ qlog[2].content = JsonDumps("error: Error executing tool")
    /\ Len(second_response) = 2

ModelCallFailed == outcome \in {ErrRouting, ErrFormatting, ErrFallback}

\* C4 as stated: after a model-call failure at either call, the query has
\* appended nothing but its user turn.
C4_OnlyUserTurnOnFailure ==
    ModelCallFailed => qlog = <<UserEntry>>

\* C4 as amended: after a model-call failure the query has appended no
\* assistant turn; it has appended only its user turn when the routing call or
\* the fallback call failed, and its user turn followed by the tool turn when
\* the result-formatting call failed.
C4_NoAssistantTurnOnFailure ==
    ModelCallFailed =>
        /\ \A i \in 1..Len(qlog) : qlog[i].role # "assistant"
        /\ outcome \in {ErrRouting, ErrFallback} => qlog = <<UserEntry>>
        /\ outcome = ErrFormatting =>
              /\ Len(qlog) = 2
              /\ qlog[1] = UserEntry
              /\ qlog[2].role = "tool"
              /\ qlog[2].tool_name = executed[1]

\* C4 witness: the formatting stream failed after a chunk had been streamed.
C4_Witness ==
    /\ outcome = ErrFormatting
    /\ Len(second_response) = 1
    /\ Len(qlog) = 2
    /\ max_turns = 1
    /\ Len(messages) = 2

\* C5 as stated: after a model-call failure at either call, the error string
\* is the only fragment the query yielded.
C5_ErrorIsWholeResponse ==
    ModelCallFailed => out \in {<<ErrorMsg>>, <<FallbackErrorMsg>>}

\* C5 as amended: after a failure of the routing call the error string is the
\* only fragment; after a failure of the second call the error string is the
\* last fragment, and before it come the tool indicator (formatting call) or
\* the unavailable-tool notice (fallback call) and the chunks streamed until
\* the failure.
C5_ErrorIsLastFragment ==
    /\ outcome = ErrRouting => out = <<ErrorMsg>>
    /\ outcome = ErrFormatting =>
          out = <<Indicator(executed[1])>> \o AsFragments(second_response) \o <<ErrorMsg>>
    /\ outcome = ErrFallback =>
          out = <<Notice(DictGet(tool_call, "tool_name"))>>
                   \o AsFragments(second_response) \o <<FallbackErrorMsg>>

\* C5 witness: the formatting stream of a stock query failed after one chunk
\* had been yielded.
C5_Witness ==
    /\ outcome = ErrFormatting
    /\ out = <<Indicator("get_stock_price"), <<"x">>, ErrorMsg>>

\* C6 (model calls of one query): at most two calls, the routing call first,
\* then one formatting call or one fallback call, never both; and no call but
\* the routing call has been issued while the routing stream is being read.
C6_AtMostTwoModelCalls ==
    /\ Len(calls) <= 2
    /\ Len(calls) >= 1 => calls[1] = "routing"
    /\ Len(calls) = 2 => calls[2] \in {"formatting", "fallback"}
    /\ pc = "route_open" => calls = <<>>
    /\ pc = "route_stream" => calls = <<"routing">>
    /\ Len(calls) = 2 => pc \notin {"route_open", "route_stream"}

\* C6 witness: a query that made the routing call and then the fallback call
\* whose stream failed.
C6_Witness ==
    /\ calls = <<"routing", "fallback">>
    /\ outcome = ErrFallback
    /\ Len(second_response) = 1

\* the candidate blocks of a text, stated by position: the n-th fence, the
\* k-th fenced block, and the whole text when there is no fenced block
FenceIdx(text) == {i \in 1..Len(text) : text[i] = Fence}
NthFence(text, n) ==
    CHOOSE i \in FenceIdx(text) : Cardinality({j \in FenceIdx(text) : j <= i}) = n
NumBlocks(text) == Cardinality(FenceIdx(text)) \div 2
CandidateBlocks(text) ==
    IF NumBlocks(text) = 0 THEN <<text>>
    ELSE [k \in 1..NumBlocks(text) |->
             SubSeq(text, NthFence(text, 2 * k - 1) + 1, NthFence(text, 2 * k) - 1)]
Qualifies(cand) == Len(cand) = 1 /\ cand[1] \in ToolCallDocs

\* C7 (extraction order): the result of _extract_tool_call is the first
\* candidate block, in the order found, that is a JSON object with the key
\* use_tool; blocks that do not parse, or parse to something else, are passed
\* over; with no such block the result is None.
C7_FirstQualifyingCandidate ==
    pc = "extracted" =>
        LET cs == CandidateBlocks(full_response)
            Q == {k \in 1..Len(cs) : Qualifies(cs[k])}
        IN  IF Q = {} THEN tool_call = NoneVal
            ELSE tool_call = cs[Min(Q)][1]

\* C7 witness: two fenced JSON blocks, only the second with use_tool: the
\* second is returned.
C7_Witness ==
    /\ pc = "extracted"
    /\ full_response = <<Fence, D_obj, Fence, Fence, D_weather, Fence>>
    /\ tool_call = D_weather

\* the reply took the direct-answer path: no intent or use_tool false, and
\* the routing call did not fail
DirectAnswerCase ==
    /\ pc \in {"direct_yielded", "done", "abandoned"}
    /\ ~IsError(outcome)
    /\ tool_call = NoneVal \/ DictGet(tool_call, "use_tool") = "false"

\* C8 (direct-answer path): the response is the accumulated routing text and
\* nothing else, no tool is executed, no second model call is made, and a
\* query that ran to its end has appended [user(query), assistant(text)].
C8_DirectAnswer ==
    DirectAnswerCase =>
        /\ Concat(out) = full_response
        /\ Len(out) = 1
        /\ executed = <<>>
        /\ calls = <<"routing">>
        /\ pc = "done" =>
              /\ outcome = "DONE"
              /\ qlog = <<UserEntry, Msg("assistant", NoneVal, full_response)>>
        /\ pc # "done" => qlog = <<UserEntry>>

\* C8 witness: a reply that is an intent with use_tool false, answered
\* directly and stored.
C8_Witness ==
    /\ pc = "done"
    /\ outcome = "DONE"
    /\ tool_call = D_false
    /\ Len(qlog) = 2

\* C9 (tool path): use_tool true, a registered tool and two successful model
\* calls: the query has appended [user, tool(tool_name, result), assistant]
\* and the assistant content is the concatenation of the chunks of the
\* formatting stream as they were yielded after the indicator.
C9_ToolPath ==
    ( /\ pc = "done"
      /\ outcome = "DONE"
      /\ tool_call # NoneVal
      /\ DictGet(tool_call, "use_tool") = "true"
      /\ DictGet(tool_call, "tool_name") \in ToolMap ) =>
        /\ Len(qlog) = 3
        /\ qlog[1] = UserEntry
        /\ qlog[2].role = "tool"
        /\ qlog[2].tool_name = DictGet(tool_call, "tool_name")
        /\ qlog[2].content[1] = "json"
        /\ qlog[3].role = "assistant"
        /\ Len(out) >= 1
        /\ out[1] = Indicator(DictGet(tool_call, "tool_name"))
        /\ qlog[3].content = Concat(Tail(out))
        /\ Tail(out) = AsFragments(second_response)

\* C9 witness: a successful weather call whose answer came in two different
\* chunks.
C9_Witness ==
    /\ pc = "done"
    /\ outcome = "DONE"
    /\ tool_call = D_weather
    /\ Len(qlog) = 3
    /\ qlog[2].content = JsonDumps("weather report")
    /\ qlog[3].content = <<"x", D_weather>>

\* C10 (unknown-tool fallback) as stated: for every intent with use_tool
\* true whose tool_name is not a key of the tool map, whatever its value, once
\* the reply has been interpreted the first fragment is the unavailable-tool
\* notice, no tool is executed, no tool turn is appended, and a query whose
\* fallback stream completed has made exactly the routing and the fallback
\* call, has yielded the fallback chunks after the notice and has appended
\* the fallback text as its assistant turn.
C10_UnknownToolFallback ==
    ( /\ pc \in {"fallback_open", "fallback_stream", "done", "abandoned"}
      /\ tool_call # NoneVal
      /\ DictGet(tool_call, "use_tool") = "true"
      /\ DictGet(tool_call, "tool_name") \notin ToolMap ) =>
        /\ Len(out) >= 1
        /\ out[1] = Notice(DictGet(tool_call, "tool_name"))
        /\ executed = <<>>
        /\ \A i \in 1..Len(qlog) : qlog[i].role # "tool"
        /\ (pc = "done" /\ outcome # ErrFallback) =>
              /\ outcome = "DONE"
              /\ calls = <<"routing", "fallback">>
              /\ Tail(out) = AsFragments(second_response)
              /\ qlog = <<UserEntry, Msg("assistant", NoneVal, second_response)>>

HasAssistant(log) == \E i \in 1..Len(log) : log[i].role = "assistant"

\* the text of the final-answer stream of the running query: the routing text
\* on the direct path, the text of the second stream otherwise
FinalText == IF Len(calls) = 2 THEN second_response ELSE full_response

\* C11 (assistant turns are appended whole, after the stream): the query has
\* appended an assistant entry only when it ran to its end with every
\* fragment of the final-answer stream yielded to the caller, and then the
\* entry is the last one and holds the whole text of that stream; a query the
\* caller stopped consuming, and a query still running, has appended none.
C11_AssistantOnlyAfterCompletion ==
    /\ HasAssistant(qlog) =>
          /\ pc = "done"
          /\ outcome = "DONE"
          /\ ~suspended
          /\ qlog[Len(qlog)] = Msg("assistant", NoneVal, FinalText)
          /\ \A i \in 1..(Len(qlog) - 1) : qlog[i].role # "assistant"
          /\ Len(out) >= 1
          /\ Len(calls) = 1 => out = <<full_response>>
          /\ Len(calls) = 2 => Tail(out) = AsFragments(second_response)
    /\ outcome = "ABANDONED" => ~HasAssistant(qlog)
    /\ pc # "done" => ~HasAssistant(qlog)

\* C11 witness: the caller stopped after the first chunk of the formatted
\* answer; the ledger holds the user and the tool turn of the query only.
C11_Witness ==
    /\ outcome = "ABANDONED"
    /\ calls = <<"routing", "formatting">>
    /\ Len(second_response) = 1
    /\ Len(qlog) = 2
    /\ messages = IF max_turns = 0 THEN <<>> ELSE qlog

\* C12 (nothing unwinds past process_query): a query that has ended ended DONE
\* or in one of the except clauses, never with an exception raised to the
\* caller; it has yielded at least one fragment, and after a failure the last
\* fragment is the error string of the except clause that caught it.  A tool
\* that raised never ends the query; a tool_name that cannot be looked up
\* ends it in the except clause of process_query.
C12_NothingUnwinds ==
    /\ pc = "done" =>
          /\ outcome = "DONE" \/ IsError(outcome)
          /\ Len(out) >= 1
    /\ IsError(outcome) =>
          /\ pc = "done"
          /\ outcome = ErrFallback => out[Len(out)] = FallbackErrorMsg
          /\ outcome # ErrFallback => out[Len(out)] = ErrorMsg
    /\ outcome # ErrTool
    /\ ~tool_response.raised
    /\ (tool_call # NoneVal /\ IsToolCall(tool_call)
          /\ Unhashable(DictGet(tool_call, "tool_name"))) => outcome = ErrLookup

\* C12 witness: two failures in one query: tool.execute raised on non-mapping
\* tool_parameters, then the formatting stream failed after one chunk; the
\* query ended with the error string as its last fragment.
C12_Witness ==
    /\ pc = "done"
    /\ tool_call = D_badparams
    /\ tool_response.payload = "error: Error executing tool"
    /\ outcome = ErrFormatting
    /\ Len(out) = 3
    /\ out[3] = ErrorMsg

\* the required parameter of the executed tool is absent or empty
MissingRequired ==
    \/ executed[1] = "get_weather" /\ Falsy(KwGet(exec_kwargs, "location"))
    \/ executed[1] = "get_stock_price" /\ Falsy(KwGet(exec_kwargs, "symbol"))

\* C13 (expected failures are returned) as stated: an execute whose required
\* parameter is missing, or whose request met a network failure, a non-200
\* status or a malformed payload, returns an {error, details} payload and
\* does not raise.
C13_ExpectedFailuresReturned ==
    ( /\ pc = "executed"
      /\ \/ MissingRequired
         \/ /\ tool_response.requested
            /\ upstream \in {"client_error", "status", "bad_payload"} ) =>
        /\ ~tool_response.raised
        /\ IsErrorPayload(tool_response.payload)

\* C14 (missing credentials) as stated: an execute of a tool built without
\* an api_key, on any parameter mapping, returns the {error, details} payload
\* that reports the missing key, sends no request and does not raise.
C14_MissingKeyReported ==
    (pc = "executed" /\ ~api_key[executed[1]]) =>
        /\ ~tool_response.raised
        /\ tool_response.payload \in {"error: Weather API key is missing",
                                      "error: Alpha Vantage API key is missing"}
        /\ ~tool_response.requested

\* C15 (snapshot immutability) as stated: no step in which the caller
\* changes the list returned by get_messages, or a field of an entry in it,
\* changes what the ledger holds.
C15_SnapshotImmutable ==
    [][pc' = "caller" => messages' = messages]_vars

Max2(a, b) == IF a > b THEN a ELSE b

\* C16 (routing-call context): when a query starts, the messages list of its
\* routing call is the system routing prompt, then the user and assistant
\* entries among the earlier ledger entries still retained once the query has
\* been appended, in ledger order and with no tool entry, then the query as
\* the last message; nothing else is in the list, so the query is there once
\* and no retained earlier user or assistant entry is missing.
C16_RoutingContext ==
    [][ nq' = nq + 1 =>
          LET earlier == LastN(messages, Max2(Len(messages') - 1, 0))
              ua == SelectSeq(earlier, IsUserOrAssistant)
          IN  /\ Len(messages') > 0 => messages' = earlier \o <<Msg("user", NoneVal, query')>>
              /\ Len(routing_messages') = Len(ua) + 2
              /\ routing_messages'[1] = SystemPrompt
              /\ \A i \in 1..Len(ua) :
                    routing_messages'[i + 1] = ChatMsg(ua[i].role, ua[i].content)
              /\ routing_messages'[Len(ua) + 2] = ChatMsg("user", query')
              /\ \A i \in 2..Len(routing_messages') :
                    routing_messages'[i].role \in {"user", "assistant"} ]_vars

\* C16 witness: the second query of a session starts on a ledger whose
\* retained earlier entry is the tool turn of the first query; the list sent
\* is the system prompt and the query.
C16_Witness ==
    /\ nq = 2
    /\ pc = "route_open"
    /\ Len(messages) = 2
    /\ messages[1].role = "tool"
    /\ routing_messages = <<SystemPrompt, ChatMsg("user", query)>>

\* a process_query has run to its end or has been given up by its caller
QueryEnded == pc \in {"done", "abandoned"}

\* C17 (turn pairing) as stated: every tool entry of the ledger has the user
\* entry directly before it and, once its query has ended, the assistant
\* entry directly after it.
C17_ToolBetweenUserAndAssistant ==
    \A j \in 1..Len(messages) :
        messages[j].role = "tool" =>
            /\ j > 1
            /\ messages[j - 1].role = "user"
            /\ (j < Len(messages) \/ QueryEnded) =>
                  /\ j < Len(messages)
                  /\ messages[j + 1].role = "assistant"

\* C17 as amended: pairing holds in the order of appends, and the ledger
\* keeps a suffix of that order.  A query appends its tool entry directly
\* after its user entry and, when it ends DONE, its assistant entry directly
\* after the tool entry; a query whose formatting call failed or whose caller
\* stopped leaves the tool entry without an assistant entry.  In the ledger a
\* tool entry is preceded by a user entry unless that one has been evicted
\* (the tool entry is then first), and is followed by an assistant entry or,
\* when its query ended without one, by the user entry of the next query.
C17_PairingByAppendOrder ==
    /\ \A i \in 1..Len(qlog) :
          qlog[i].role = "tool" =>
              /\ i = 2
              /\ qlog[1] = UserEntry
              /\ Len(qlog) >= 3 => (Len(qlog) = 3 /\ qlog[3].role = "assistant")
              /\ outcome = "DONE" => Len(qlog) = 3
              /\ (QueryEnded /\ outcome # "DONE") =>
                    (Len(qlog) = 2 /\ outcome \in {ErrFormatting, "ABANDONED"})
    /\ \A k \in 1..Len(appended) :
          appended[k].role = "tool" =>
              /\ k > 1
              /\ appended[k - 1].role = "user"
              /\ k < Len(appended) => appended[k + 1].role \in {"assistant", "user"}
    /\ \A j \in 1..Len(messages) :
          messages[j].role = "tool" =>
              /\ j > 1 => messages[j - 1].role = "user"
              /\ j < Len(messages) => messages[j + 1].role \in {"assistant", "user"}
    /\ messages = LastN(appended, Min2(Len(appended), 2 * max_turns))

\* C17 witness: the formatting call of the first query failed, and the second
\* query has started: the ledger is [tool, user], the user entry of the first
\* query evicted and no assistant entry behind the tool entry.
C17_Witness ==
    /\ nq = 2
    /\ max_turns = 1
    /\ Len(appended) = 3
    /\ appended[2].role = "tool"
    /\ messages = <<appended[2], appended[3]>>
    /\ messages[2].role = "user"

\* the step that takes a running process_query forward when nothing fails is
\* enabled
CanProceed ==
    /\ pc = "route_open" => ENABLED RouteOpen
    /\ pc = "route_stream" =>
          ENABLED (RouteEndDirect \/ RouteEndTool \/ RouteEndUnknown \/ RouteEndLookupRaises)
    /\ pc = "direct_yielded" => ENABLED DirectAppend
    /\ pc = "tool_exec" => ENABLED ToolExec("ok")
    /\ pc = "format_open" => ENABLED FormatOpen
    /\ pc = "format_stream" => ENABLED FormatEnd
    /\ pc = "fallback_open" => ENABLED FallbackOpen
    /\ pc = "fallback_stream" => ENABLED FallbackEnd

\* C18 (an ERROR ends its query only): after a query that ended in ERROR a
\* further process_query can be started on the same router and ledger; the
\* query after a failed one starts like any other (its user entry appended,
\* its routing list ending with it, nothing left over from the failed one),
\* can take each step of the routing cycle, ends DONE when nothing fails in
\* it; and the ledger never exceeds 2 * max_turns entries.
C18_ErrorEndsItsQueryOnly ==
    /\ Len(messages) <= 2 * max_turns
    /\ IsError(outcome) => ENABLED StartQuery(<<"query">>)
    /\ IsError(prev_outcome) =>
          /\ pc \notin {"idle"}
          /\ Len(qlog) >= 1
          /\ qlog[1] = UserEntry
          /\ routing_messages[Len(routing_messages)] = ChatMsg("user", query)
          /\ pc = "route_open" =>
                (calls = <<>> /\ out = <<>> /\ executed = <<>> /\ full_response = <<>>
                   /\ second_response = <<>> /\ tool_call = NoneVal /\ outcome = NoneVal)
          /\ CanProceed
          /\ (pc = "done" /\ ~IsError(outcome)) =>
                /\ outcome = "DONE"
                /\ qlog[Len(qlog)].role = "assistant"

\* C18 witness: the formatting call of the first query failed; the second
\* query went through routing, tool and formatting and ended DONE, on a
\* ledger at its cap.
C18_Witness ==
    /\ nq = 2
    /\ prev_outcome = ErrFormatting
    /\ outcome = "DONE"
    /\ calls = <<"routing", "formatting">>
    /\ Len(qlog) = 3
    /\ max_turns = 1
    /\ Len(messages) = 2

\* C19 (reset): clear() can be called in every state and leaves the ledger
\* empty, a leading system entry included, with max_turns as it was; on an
\* empty ledger it changes nothing of the ledger, and right after a clear() a
\* second clear() changes nothing at all; the appends after a clear() are
\* retained up to the same cap of 2 * max_turns entries.
C19_ClearResets ==
    /\ [](ENABLED MemClear)
    /\ [](messages = <<>> =>
             ~ENABLED (MemClear /\ <<messages, max_turns>>' # <<messages, max_turns>>))
    /\ []((pc = "cleared" /\ appended = <<>>) => ~ENABLED (MemClear /\ vars' # vars))
    /\ [][ (pc' = "cleared" /\ appended' = <<>>) =>
              (messages' = <<>> /\ max_turns' = max_turns) ]_vars
    /\ [](pc = "cleared" =>
             /\ Len(messages) <= 2 * max_turns
             /\ messages = LastN(appended, Min2(Len(appended), 2 * max_turns)))

\* C19 witness: a ledger that has been cleared and then received three
\* appends holds the last two of them, its cap being two.
C19_Witness ==
    /\ pc = "cleared"
    /\ max_turns = 1
    /\ Len(appended) = 3
    /\ messages = <<appended[2], appended[3]>>

IndicatorText == "I'll check that for you using"

\* the positions of out that hold the indicator of tool t
IndicatorAt(t) == {i \in 1..Len(out) : out[i] = Indicator(t)}

\* C20 (the indicator is a side channel): on the tool path the indicator of
\* the tool is the first fragment and is yielded once; it has been yielded
\* while the tool has not been executed yet; no entry the query appends, and
\* no entry of the ledger, is made from it; and the assistant entry of a tool
\* query holds the text of the formatting stream and nothing else.
C20_IndicatorIsSideChannel ==
    /\ pc = "tool_exec" =>
          /\ executed = <<>>
          /\ out = <<Indicator(DictGet(tool_call, "tool_name"))>>
    /\ executed # <<>> =>
          /\ Len(executed) = 1
          /\ IndicatorAt(executed[1]) = {1}
          /\ \A t \in ToolMap \ {executed[1]} : IndicatorAt(t) = {}
    /\ executed = <<>> => \A t \in ToolMap : IndicatorAt(t) \subseteq {1}
    /\ \A i \in 1..Len(qlog) : IndicatorText \notin Range(qlog[i].content)
    /\ \A i \in 1..Len(messages) : IndicatorText \notin Range(messages[i].content)
    /\ (executed # <<>> /\ HasAssistant(qlog)) =>
          /\ qlog[Len(qlog)].content = second_response
          /\ qlog[Len(qlog)].content = Concat(Tail(out))

\* C20 witness: a stock query answered in two fragments, the indicator and
\* one chunk; the assistant entry is the chunk alone.
C20_Witness ==
    /\ outcome = "DONE"
    /\ executed = <<"get_stock_price">>
    /\ out = <<Indicator("get_stock_price"), <<"x">>>>
    /\ qlog[3] = Msg("assistant", NoneVal, <<"x">>)
    /\ max_turns = 1
    /\ messages[2] = qlog[3]

\* how many times call kind k has been issued by the running query
Issued(k) == Cardinality({i \in 1..Len(calls) : calls[i] = k})

\* C21 (no automatic retry): in one query tool.execute is invoked at most
\* once and each kind of model call is issued at most once; a query whose
\* model call failed has that call as its last call, and once a query has
\* failed it issues no further model call and executes no tool.
C21_NoRetry ==
    /\ [](/\ Len(executed) <= 1
          /\ \A k \in {"routing", "formatting", "fallback"} : Issued(k) <= 1
          /\ outcome = ErrRouting => calls = <<"routing">>
          /\ outcome = ErrFormatting => calls = <<"routing", "formatting">>
          /\ outcome = ErrFallback => calls = <<"routing", "fallback">>
          /\ outcome \in {ErrLookup, ErrTool} => calls = <<"routing">>)
    /\ [][ (IsError(outcome) /\ nq' = nq) =>
              (calls' = calls /\ executed' = executed /\ outcome' = outcome) ]_vars
    /\ [][ (executed # <<>> /\ nq' = nq) => executed' = executed ]_vars

\* C21 witness: the tool returned an error payload and the formatting stream
\* then failed; the query ended with one execute and two model calls.
C21_Witness ==
    /\ outcome = ErrFormatting
    /\ executed = <<"get_stock_price">>
    /\ tool_response.payload = "error: Alpha Vantage API key is missing"
    /\ calls = <<"routing", "formatting">>
    /\ Len(second_response) = 1

\* some step of the running process_query, or its caller giving it up
QueryStep ==
    \/ RouteOpen \/ RouteOpenFails \/ RouteFails
    \/ \E c \in SessionRouteChunks : RouteChunk(c)
    \/ RouteEndDirect \/ RouteEndLookupRaises \/ RouteEndTool \/ RouteEndUnknown
    \/ DirectAppend
    \/ \E r \in SessionNet : ToolExec(r)
    \/ FormatOpen \/ FormatOpenFails \/ FormatFails \/ FormatEnd
    \/ \E c \in SessionChunks : FormatChunk(c)
    \/ FallbackOpen \/ FallbackOpenFails \/ FallbackFails \/ FallbackEnd
    \/ \E c \in SessionChunks : FallbackChunk(c)
    \/ Abandon

\* C22 (one query at a time): a process_query is started only when none is
\* running: the previous one has ended or has been given up by its caller,
\* and in either case it has no step left, so it yields nothing more and
\* appends nothing more.  Every entry appended to the ledger is appended by
\* the query that is running, and the entries of a query lie together at the
\* end of what has been appended.
C22_OneQueryAtATime ==
    /\ [][ nq' = nq + 1 => (Between /\ ~suspended /\ ~ENABLED QueryStep) ]_vars
    /\ [](Between => ~ENABLED QueryStep)
    /\ [][ Len(appended') = Len(appended) + 1 =>
              LET e == appended'[Len(appended')]
              IN  IF nq' = nq + 1 THEN qlog' = <<e>>
                  ELSE (~Between /\ nq' = nq /\ qlog' = Append(qlog, e)) ]_vars
    /\ [](Len(qlog) <= Len(appended) => LastN(appended, Len(qlog)) = qlog)

\* C22 witness: the caller stopped the first query in the middle of its
\* formatted answer; the second query then ran to DONE, and its two entries
\* follow the two entries of the first.
C22_Witness ==
    /\ nq = 2
    /\ prev_outcome = "ABANDONED"
    /\ outcome = "DONE"
    /\ Len(appended) = 4
    /\ appended[2].role = "tool"
    /\ qlog = <<appended[3], appended[4]>>

(***************************************************************************)
(* Specification of a query whose caller consumes it to the end: the       *)
(* caller never stops iterating, the streams are finite (routed and        *)
(* delivered are capped) and tool.execute returns or raises, so the        *)
(* generator is resumed whenever it can take a step.                       *)
(***************************************************************************)
\* a step of process_query other than its caller giving it up
LiveStep ==
    \/ RouteOpen \/ RouteOpenFails \/ RouteFails
    \/ \E c \in SessionRouteChunks : RouteChunk(c)
    \/ RouteEndDirect \/ RouteEndLookupRaises \/ RouteEndTool \/ RouteEndUnknown
    \/ DirectAppend
    \/ \E r \in SessionNet : ToolExec(r)
    \/ FormatOpen \/ FormatOpenFails \/ FormatFails \/ FormatEnd
    \/ \E c \in SessionChunks : FormatChunk(c)
    \/ FallbackOpen \/ FallbackOpenFails \/ FallbackFails \/ FallbackEnd
    \/ \E c \in SessionChunks : FallbackChunk(c)

NextLive ==
    \/ \E q \in Queries : nq < MaxQueries /\ StartQuery(q)
    \/ RouteOpen
    \/ RouteOpenFails
    \/ \E c \in SessionRouteChunks : RouteChunk(c)
    \/ RouteFails
    \/ RouteEndDirect
    \/ RouteEndLookupRaises
    \/ RouteEndTool
    \/ RouteEndUnknown
    \/ DirectAppend
    \/ \E r \in SessionNet : ToolExec(r)
    \/ FormatOpen
    \/ FormatOpenFails
    \/ \E c \in SessionChunks : FormatChunk(c)
    \/ FormatFails
    \/ FormatEnd
    \/ FallbackOpen
    \/ FallbackOpenFails
    \/ \E c \in SessionChunks : FallbackChunk(c)
    \/ FallbackFails
    \/ FallbackEnd
    \/ Clear

SpecLive == Init /\ [][NextLive]_vars /\ WF_vars(LiveStep)

\* position of a state of the cycle along process_query
Rank(p) ==
    CASE p = "idle" -> 0
      [] p = "route_open" -> 1
      [] p = "route_stream" -> 2
      [] p \in {"direct_yielded", "tool_exec"} -> 3
      [] p \in {"format_open", "fallback_open"} -> 4
      [] p \in {"format_stream", "fallback_stream"} -> 5
      [] OTHER -> 6

\* C23 (termination): with finite streams, a tool that returns or raises and
\* a caller that keeps consuming, every process_query call reaches DONE or
\* ERROR; it has yielded a bounded number of fragments by then; within a
\* query every step moves forward in the cycle or consumes one chunk of a
\* stream, so no path comes back to an earlier state.
C23_Terminates ==
    /\ (pc = "route_open") ~> (pc = "done" /\ (outcome = "DONE" \/ IsError(outcome)))
    /\ [](Len(out) <= MaxChunks + 2)
    /\ [][ nq' = nq =>
              \/ Rank(pc') > Rank(pc)
              \/ (pc' = pc /\ routed' + delivered' > routed + delivered)
              \/ (Between /\ pc' = pc) ]_vars

\* C23 witness: a query on the tool path ended DONE after the indicator and
\* two fragments of the formatted answer.
C23_Witness ==
    /\ pc = "done"
    /\ outcome = "DONE"
    /\ executed # <<>>
    /\ delivered = 2
    /\ Len(out) = 3

\* C24 (truncation preserves complete exchanges): once an append has evicted
\* entries, the retained entries after a leading system entry begin with a
\* user entry, so no assistant or tool entry outlives the user entry that
\* triggered it.
C24_RetainedBeginWithUser ==
    LET body == IF HasSystem THEN Tail(messages) ELSE messages
    IN  (Len(appended) > Len(body) /\ body # <<>>) => body[1].role = "user"

\* the first fragment shows that the intent was dispatched: the indicator of
\* a registered tool, the notice of an unregistered one, or the error string
\* of a failed lookup, instead of the routing text
Dispatched == out # <<>> /\ out[1] # full_response

\* C25 (dispatch only on true): once the intent of a query is extracted and
\* its first fragment yielded, the query was dispatched to a tool lookup
\* exactly when the intent's use_tool is the boolean true; with any other
\* value the query takes the direct-answer path and no tool is executed.
C25_DispatchOnlyOnTrue ==
    (tool_call # NoneVal /\ out # <<>>) =>
        /\ Dispatched <=> (DictGet(tool_call, "use_tool") = "true")
        /\ DictGet(tool_call, "use_tool") # "true" => executed = <<>>

\* the roles of a sequence of ledger entries
Roles(entries) == [i \in 1..Len(entries) |-> entries[i].role]

\* C26 (per-query footprint): the entries a process_query call has appended
\* are, at every moment, its user entry first, then at most one tool entry,
\* then at most one assistant entry; a tool entry is there only when a
\* registered tool was executed, and it carries that tool's name.
C26_Footprint ==
    /\ nq > 0 =>
          /\ Roles(qlog) \in {<<"user">>, <<"user", "assistant">>, <<"user", "tool">>,
                              <<"user", "tool", "assistant">>}
          /\ qlog[1] = UserEntry
    /\ \A i \in 1..Len(qlog) :
          qlog[i].role = "tool" =>
              /\ executed = <<qlog[i].tool_name>>
              /\ qlog[i].tool_name \in ToolMap
    /\ (pc = "done" /\ outcome = "DONE") => qlog[Len(qlog)].role = "assistant"

\* C26 witness: a query whose tool call had unusable parameters ended with
\* the footprint [user, tool] because the formatting call failed.
C26_Witness ==
    /\ pc = "done"
    /\ outcome = ErrFormatting
    /\ tool_call = D_badparams
    /\ Roles(qlog) = <<"user", "tool">>

\* the strings process_query builds itself for the intent tc
OwnFragments(tc) ==
    {Indicator(DictGet(tc, "tool_name")), Notice(DictGet(tc, "tool_name")),
     ErrorMsg, FallbackErrorMsg}

\* no chunk of the second stream repeats a token of the routing reply
SecondStreamDiffers == \A i \in 1..Len(second_response) : second_response[i] \notin Range(full_response)

\* C27 (the tool-call text stays internal): when the routing reply was
\* interpreted as a tool call, every fragment yielded is a string built by
\* process_query (indicator, notice, error string) or the chunk of the second
\* model stream at that position, and an assistant entry of the query holds
\* the text of the second stream; so, unless the second model itself repeats
\* it, no token of the routing reply is yielded or stored as assistant
\* content, on the tool path, the fallback path and the error path.
C27_RoutingTextStaysInternal ==
    (tool_call # NoneVal /\ IsToolCall(tool_call)) =>
        /\ \A i \in 1..Len(out) :
              \/ out[i] \in OwnFragments(tool_call)
              \/ /\ i >= 2
                 /\ i - 1 <= Len(second_response)
                 /\ out[i] = <<second_response[i - 1]>>
        /\ \A i \in 1..Len(qlog) :
              qlog[i].role = "assistant" => qlog[i].content = second_response
        /\ SecondStreamDiffers =>
              /\ \A i \in 1..Len(out) : Range(out[i]) \cap Range(full_response) = {}
              /\ \A i \in 1..Len(qlog) :
                    qlog[i].role = "assistant" =>
                        Range(qlog[i].content) \cap Range(full_response) = {}

\* C27 witness: a tool call of an unregistered tool answered by the fallback;
\* the notice and the fallback chunk were yielded, the chunk was stored.
C27_Witness ==
    /\ pc = "done"
    /\ outcome = "DONE"
    /\ tool_call = D_unicorn
    /\ out = <<Notice("get_unicorn_price"), <<"x">>>>
    /\ Roles(qlog) = <<"user", "assistant">>
    /\ qlog[2].content = <<"x">>

\* C28 (never silent): a process_query call consumed to its end has yielded
\* at least one fragment, and the first one tells the path: the accumulated
\* text, even when it is empty, on the direct path; the indicator on the tool
\* path; the notice on the fallback path; the error string when the routing
\* call or the lookup failed.
C28_NeverSilent ==
    pc = "done" =>
        /\ Len(out) >= 1
        /\ (tool_call = NoneVal /\ outcome = ErrRouting) => out = <<ErrorMsg>>
        /\ outcome = ErrLookup => out = <<ErrorMsg>>
        /\ (outcome # ErrRouting /\ ~IsToolCall(tool_call)) => out = <<full_response>>
        /\ executed # <<>> => out[1] = Indicator(executed[1])
        /\ (IsToolCall(tool_call) /\ executed = <<>> /\ outcome # ErrLookup) =>
              out[1] = Notice(DictGet(tool_call, "tool_name"))
        /\ IsError(outcome) => out[Len(out)] \in {ErrorMsg, FallbackErrorMsg}

\* C28 witness: the routing stream ended without any text; the one fragment
\* of the query is the empty string.
C28_Witness ==
    /\ pc = "done"
    /\ outcome = "DONE"
    /\ full_response = <<>>
    /\ out = <<<<>>>>

\* the user and assistant messages of a routing context, after its system
\* prompt
Context(rm) == IF rm = <<>> THEN <<>> ELSE Tail(rm)

\* positions of a context whose message and the next have the same role
Repeats(ctx, role) ==
    {i \in 1..(Len(ctx) - 1) : ctx[i].role = role /\ ctx[i + 1].role = role}

====
